---------------------------- MODULE Spec2Model ----------------------------
(***************************************************************************)
(* Passage marketplace-v2: the ask / bid / collection-bid / auction        *)
(* registries, the escrow held by the contract, and the settlement of a    *)
(* sale, as execute.rs implements them.                                    *)
(*                                                                         *)
(* Every call is one atomic step: the handler computes its storage writes  *)
(* and its messages (bank sends, cw721 transfers); the host commits them   *)
(* together, or discards them all when the handler or a message fails.     *)
(*                                                                         *)
(* Passage whitelist: the configuration and the member set of the          *)
(* allow-list, as contract.rs implements them, in the last part.           *)
(***************************************************************************)
EXTENDS Integers, Sequences, FiniteSets, TLC

VARIABLES
    params,           \* PARAMS: the marketplace parameters
    asks,             \* asks(): token id -> Ask
    bids,             \* bids(): <<token id, bidder>> -> Bid
    collection_bids,  \* collection_bids(): bidder -> CollectionBid
    auctions,         \* auctions(): token id -> Auction
    owner,            \* the cw721 ledger: token id -> current owner
    bal,              \* the bank: address -> balance in the settlement denom
    now,              \* env.block.time
    calls,            \* the number of calls committed
    last              \* the last call committed: its operation, sender and
                      \* request, and the bank and the bids before it

VARIABLES
    config,           \* whitelist CONFIG
    whitelist,        \* whitelist WHITELIST: the set of member addresses
    wnow,             \* env.block.time of the whitelist's chain
    wlast             \* the last whitelist call committed, and how many were

\* the state of the whitelist contract
wvars == <<config, whitelist, wnow, wlast>>

vars == <<params, asks, bids, collection_bids, auctions, owner, bal, now, calls, last,
          config, whitelist, wnow, wlast>>

----------------------------------------------------------------------------
(* Bounds of the model *)

\* at most MaxCalls calls commit
MaxCalls == 3
\* at most MaxListingCalls calls commit when only listings are made
MaxListingCalls == 5
\* block time runs from 0 to MaxTime
MaxTime == 1
\* price amounts offered in requests are 1..MaxPrice
MaxPrice == 3
\* unit counts offered in collection bids are 1..MaxUnits
MaxUnits == 2
\* each user starts with this many coins of the settlement denom
InitFunds == 5

(* Values given to instantiate *)

\* InstantiateMsg.trading_fee_bps
InitFeeBps == 5000
\* InstantiateMsg.min_price
InitMinPrice == 2
\* InstantiateMsg.{ask,bid,auction}_expiry: min and max
InitExpiryMin == 1
InitExpiryMax == 2

Contract == "market"
Collector == "collector"
Users == {"alice", "bob"}
Tokens == {1, 2}
Denom == "upasg"
OtherDenom == "other"
\* carol only receives funds
Addrs == Users \cup {Contract, Collector, "carol"}

\* Byte order of the addresses, as the storage keys sort
Rank(a) ==
    CASE a = "alice" -> 1 [] a = "bob" -> 2 [] a = "carol" -> 3
      [] a = "collector" -> 4 [] OTHER -> 5

NoAddr == "none"

coin(amount, denom) == [denom |-> denom, amount |-> amount]

Amounts == 1..MaxPrice
Prices == {coin(a, Denom) : a \in Amounts}

----------------------------------------------------------------------------
(* Maps of cw-storage-plus, as functions on the keys present *)

Has(m, k) == k \in DOMAIN m
MapRemove(m, k) == [x \in (DOMAIN m) \ {k} |-> m[x]]
MapSave(m, k, v) == [x \in (DOMAIN m) \cup {k} |-> IF x = k THEN v ELSE m[x]]
EmptyMap == [x \in {} |-> 0]

----------------------------------------------------------------------------
(* cw_utils: the payment checks *)

\* nonpayable: no funds may be attached
nonpayable(funds) == Len(funds) = 0

\* must_pay: exactly one coin, of the given denom, of a positive amount
must_pay_ok(funds, denom) ==
    /\ Len(funds) = 1
    /\ funds[1].denom = denom
    /\ funds[1].amount > 0

must_pay(funds, denom) == funds[1].amount

----------------------------------------------------------------------------
(* helpers.rs and state.rs *)

\* ExpiryRange::is_valid: min <= proposed - now <= max
is_valid(range, block_time, expires_at) ==
    /\ range.min <= expires_at - block_time
    /\ expires_at - block_time <= range.max

\* price_validate: the denom matches, the amount is positive and at least the floor
price_validate(price, p) ==
    /\ price.denom = p.denom
    /\ price.amount > 0
    /\ price.amount >= p.min_price

\* Ask::is_expired, Bid::is_expired, ...: expiry at or before the block time
is_expired(rec, block_time) == rec.expires_at <= block_time

\* get_recipient: the funds recipient, the seller when there is none
get_recipient(rec) ==
    IF rec.funds_recipient = NoAddr THEN rec.seller ELSE rec.funds_recipient

\* CollectionBid::total_cost: price * units
total_cost(cb) == cb.price.amount * cb.units

only_operator(sender, p) == sender \in p.operators

only_seller(sender, seller) == sender = seller

only_owner(sender, token_id) == owner[token_id] = sender

\* only_owner_or_seller: the ledger's owner, or the seller of the existing ask
only_owner_or_seller(sender, token_id, seller) ==
    \/ owner[token_id] = sender
    \/ (seller # NoAddr /\ seller = sender)

\* transfer_token: a bank send from the contract
transfer_token(c, recipient) == [to |-> recipient, coin |-> c]

\* transfer_nft: a cw721 TransferNft sent by the contract
transfer_nft(token_id, recipient) == [token_id |-> token_id, to |-> recipient]

\* the fee of a sale: amount * trading_fee_percent / 100, rounded down, where
\* trading_fee_percent is Decimal::percent(trading_fee_bps)
market_fee(amount, p) == (amount * p.trading_fee_bps) \div 10000

\* finalize_sale: the fee to the collector, the rest to the recipient, the token
\* to the buyer; fails when the fee exceeds the amount
finalize_sale_ok(amount, p) == market_fee(amount, p) <= amount

finalize_sale_sends(amount, recipient, p) ==
    << transfer_token(coin(market_fee(amount, p), p.denom), p.collector_address),
       transfer_token(coin(amount - market_fee(amount, p), p.denom), recipient) >>

finalize_sale_nfts(buyer, token_id) == << transfer_nft(token_id, buyer) >>

\* match_bid: the ask on the bid's token, whatever its price
match_bid_found(bid) == Has(asks, bid.token_id)


----------------------------------------------------------------------------
(* What a handler returns: Err, or its storage writes and its messages *)

Err(e) ==
    [ok |-> FALSE, err |-> e, params |-> params, asks |-> asks, bids |-> bids,
     collection_bids |-> collection_bids, auctions |-> auctions,
     sends |-> <<>>, nfts |-> <<>>]

Ok(p, a, b, cb, au, sends, nfts) ==
    [ok |-> TRUE, err |-> "", params |-> p, asks |-> a, bids |-> b,
     collection_bids |-> cb, auctions |-> au, sends |-> sends, nfts |-> nfts]

\* ExpiryRange::validate: min may not exceed max
validate(range) == range.min <= range.max

\* An Option: <<>> is None, <<v>> is Some(v)
None == <<>>
Some(v) == <<v>>
IsSome(o) == Len(o) = 1
OrElse(o, d) == IF Len(o) = 1 THEN o[1] ELSE d

\* update_params_authorized without the only_operator of line 209
update_params_authorized_any(info) == TRUE

\* execute_update_params: the sender is one of the operators
update_params_authorized(info) == only_operator(info.sender, params)

\* execute_update_params: an operator replaces the fields that are given
execute_update_params(info, trading_fee_bps, ask_expiry, bid_expiry, auction_expiry, operators, min_price) ==
    IF ~update_params_authorized(info) THEN Err("Unauthorized")
    ELSE IF \E r \in {ask_expiry, bid_expiry, auction_expiry} :
                IsSome(r) /\ ~validate(r[1])
         THEN Err("InvalidExpirationRange")
    ELSE Ok([params EXCEPT
                !.trading_fee_bps = OrElse(trading_fee_bps, @),
                !.ask_expiry = OrElse(ask_expiry, @),
                !.bid_expiry = OrElse(bid_expiry, @),
                !.auction_expiry = OrElse(auction_expiry, @),
                !.operators = OrElse(operators, @),
                !.min_price = OrElse(min_price, @)],
            asks, bids, collection_bids, auctions, <<>>, <<>>)

\* execute_set_ask: the messages of a listing: the token moves to the contract
\* on the first listing only
set_ask_nfts(ask) ==
    IF Has(asks, ask.token_id) THEN <<>>
    ELSE << transfer_nft(ask.token_id, Contract) >>

\* set_ask_expiry_ok without the is_valid of line 247
set_ask_expiry_any(ask) == TRUE

\* execute_set_ask: the expiry lies in the ask range, counted from the block time
set_ask_expiry_ok(ask) == is_valid(params.ask_expiry, now, ask.expires_at)

execute_set_ask(info, ask) ==
    IF ~nonpayable(info.funds) THEN Err("PaymentError")
    ELSE IF ~set_ask_expiry_ok(ask) THEN Err("InvalidExpiration")
    ELSE IF ~price_validate(ask.price, params) THEN Err("InvalidPrice")
    ELSE IF ~only_owner_or_seller(info.sender, ask.token_id,
                IF Has(asks, ask.token_id) THEN asks[ask.token_id].seller ELSE NoAddr)
         THEN Err("Unauthorized")
    ELSE Ok(params, MapSave(asks, ask.token_id, ask), bids, collection_bids,
            auctions, <<>>, set_ask_nfts(ask))

\* remove_ask_nfts without the transfer_nft of line 298
remove_ask_nfts_none(ask) == <<>>

\* execute_remove_ask: the token goes to the seller of the ask
remove_ask_nfts(ask) == << transfer_nft(ask.token_id, ask.seller) >>

execute_remove_ask(info, token_id) ==
    IF ~nonpayable(info.funds) THEN Err("PaymentError")
    ELSE IF ~Has(asks, token_id) THEN Err("NotFound")
    ELSE IF ~only_seller(info.sender, asks[token_id].seller) THEN Err("Unauthorized")
    ELSE Ok(params, MapRemove(asks, token_id), bids, collection_bids, auctions,
            <<>>, remove_ask_nfts(asks[token_id]))

\* set_bid_payment_ok without the comparison of lines 318-320: any payment passes
set_bid_payment_any(bid, payment_amount) == TRUE

\* execute_set_bid: the payment must be the offered price
set_bid_payment_ok(bid, payment_amount) == bid.price.amount = payment_amount

\* set_bid_refund without the transfer_token of lines 331-336
set_bid_refund_none(existing_bid) == <<>>

\* execute_set_bid: the refund of the bidder's existing bid on the token
set_bid_refund(existing_bid) ==
    << transfer_token(existing_bid.price, existing_bid.bidder) >>

\* set_bid_settle without the asks().remove of line 344: the matched ask stays
set_bid_settle_keeps_ask(bid, payment_amount, bids1, sends1) ==
    IF match_bid_found(bid)
    THEN LET ask == asks[bid.token_id] IN
         IF ~finalize_sale_ok(payment_amount, params) THEN Err("Overflow")
         ELSE Ok(params, asks, bids1, collection_bids, auctions,
                 sends1 \o finalize_sale_sends(payment_amount, get_recipient(ask), params),
                 finalize_sale_nfts(bid.bidder, ask.token_id))
    ELSE Ok(params, asks, MapSave(bids1, <<bid.token_id, bid.bidder>>, bid),
            collection_bids, auctions, sends1, <<>>)

\* execute_set_bid: the registries and messages once an ask matched, or none did
set_bid_settle(bid, payment_amount, bids1, sends1) ==
    IF match_bid_found(bid)
    THEN LET ask == asks[bid.token_id] IN
         IF ~finalize_sale_ok(payment_amount, params) THEN Err("Overflow")
         ELSE Ok(params, MapRemove(asks, bid.token_id), bids1, collection_bids,
                 auctions,
                 sends1 \o finalize_sale_sends(payment_amount, get_recipient(ask), params),
                 finalize_sale_nfts(bid.bidder, ask.token_id))
    ELSE Ok(params, asks, MapSave(bids1, <<bid.token_id, bid.bidder>>, bid),
            collection_bids, auctions, sends1, <<>>)

execute_set_bid(info, bid) ==
    IF ~must_pay_ok(info.funds, params.denom) THEN Err("PaymentError")
    ELSE IF ~set_bid_payment_ok(bid, must_pay(info.funds, params.denom))
         THEN Err("IncorrectBidPayment")
    ELSE IF ~price_validate(bid.price, params) THEN Err("InvalidPrice")
    ELSE IF ~is_valid(params.bid_expiry, now, bid.expires_at) THEN Err("InvalidExpiration")
    ELSE LET key == <<bid.token_id, bid.bidder>>
             existing == Has(bids, key)
             bids1 == IF existing THEN MapRemove(bids, key) ELSE bids
             sends1 == IF existing THEN set_bid_refund(bids[key]) ELSE <<>>
         IN set_bid_settle(bid, must_pay(info.funds, params.denom), bids1, sends1)

\* remove_bid_refund sending the price to the collector, not to bid.bidder
remove_bid_refund_collector(bid) ==
    << transfer_token(bid.price, params.collector_address) >>

\* remove_bid_refund without the transfer_token of line 383
remove_bid_refund_none(bid) == <<>>

\* execute_remove_bid: the refund of the removed bid
remove_bid_refund(bid) == << transfer_token(bid.price, bid.bidder) >>

execute_remove_bid(info, token_id) ==
    IF ~nonpayable(info.funds) THEN Err("PaymentError")
    ELSE LET key == <<token_id, info.sender>> IN
         IF ~Has(bids, key) THEN Err("NotFound")
         ELSE Ok(params, asks, MapRemove(bids, key), collection_bids, auctions,
                 remove_bid_refund(bids[key]), <<>>)

\* accept_bid_payment_recipient without the match of lines 420-426: the caller
accept_bid_payment_recipient_sender(info, token_id) == info.sender

\* execute_accept_bid: the recipient of the ask on the token, the caller
\* when it has none
accept_bid_payment_recipient(info, token_id) ==
    IF Has(asks, token_id) THEN get_recipient(asks[token_id]) ELSE info.sender

execute_accept_bid(info, token_id, bidder) ==
    IF ~nonpayable(info.funds) THEN Err("PaymentError")
    ELSE LET key == <<token_id, bidder>> IN
         IF ~Has(bids, key) THEN Err("NotFound")
         ELSE IF is_expired(bids[key], now) THEN Err("BidExpired")
         ELSE IF ~only_owner_or_seller(info.sender, token_id,
                     IF Has(asks, token_id) THEN asks[token_id].seller ELSE NoAddr)
              THEN Err("Unauthorized")
         ELSE LET bid == bids[key]
                  payment_recipient == accept_bid_payment_recipient(info, token_id)
                  asks1 == IF Has(asks, token_id) THEN MapRemove(asks, token_id) ELSE asks
              IN IF ~finalize_sale_ok(bid.price.amount, params) THEN Err("Overflow")
                 ELSE Ok(params, asks1, MapRemove(bids, key), collection_bids, auctions,
                         finalize_sale_sends(bid.price.amount, payment_recipient, params),
                         finalize_sale_nfts(bid.bidder, token_id))

\* execute_set_collection_bid: the refund of the bidder's existing collection bid
set_collection_bid_refund(existing_bid) ==
    << transfer_token(existing_bid.price, existing_bid.bidder) >>

execute_set_collection_bid(info, collection_bid) ==
    IF ~must_pay_ok(info.funds, params.denom) THEN Err("PaymentError")
    ELSE IF ~price_validate(coin(total_cost(collection_bid), params.denom), params)
         THEN Err("InvalidPrice")
    ELSE IF total_cost(collection_bid) # must_pay(info.funds, params.denom)
         THEN Err("IncorrectBidPayment")
    ELSE IF ~is_valid(params.bid_expiry, now, collection_bid.expires_at)
         THEN Err("InvalidExpiration")
    ELSE LET key == collection_bid.bidder
             existing == Has(collection_bids, key)
             sends1 == IF existing THEN set_collection_bid_refund(collection_bids[key])
                       ELSE <<>>
         IN Ok(params, asks, bids, MapSave(collection_bids, key, collection_bid),
               auctions, sends1, <<>>)

\* execute_remove_collection_bid: the refund of the removed collection bid
remove_collection_bid_refund(collection_bid) ==
    << transfer_token(collection_bid.price, collection_bid.bidder) >>

execute_remove_collection_bid(info) ==
    IF ~nonpayable(info.funds) THEN Err("PaymentError")
    ELSE IF ~Has(collection_bids, info.sender) THEN Err("NotFound")
    ELSE Ok(params, asks, bids, MapRemove(collection_bids, info.sender), auctions,
            remove_collection_bid_refund(collection_bids[info.sender]), <<>>)

\* accept_collection_bid_units taking the first arm of the match of line 563
\* whatever the units: the record is removed
accept_collection_bid_units_removes(collection_bid) ==
    MapRemove(collection_bids, collection_bid.bidder)

\* execute_accept_collection_bid: the registry once one unit is consumed
accept_collection_bid_units(collection_bid) ==
    IF collection_bid.units = 1
    THEN MapRemove(collection_bids, collection_bid.bidder)
    ELSE MapSave(collection_bids, collection_bid.bidder,
                 [collection_bid EXCEPT !.units = @ - 1])

execute_accept_collection_bid(info, token_id, bidder) ==
    IF ~nonpayable(info.funds) THEN Err("PaymentError")
    ELSE IF ~Has(collection_bids, bidder) THEN Err("NotFound")
    ELSE IF is_expired(collection_bids[bidder], now) THEN Err("BidExpired")
    ELSE IF ~only_owner_or_seller(info.sender, token_id,
                IF Has(asks, token_id) THEN asks[token_id].seller ELSE NoAddr)
         THEN Err("Unauthorized")
    ELSE LET collection_bid == collection_bids[bidder]
             payment_recipient ==
                 IF Has(asks, token_id) THEN get_recipient(asks[token_id])
                 ELSE info.sender
             asks1 == IF Has(asks, token_id) THEN MapRemove(asks, token_id) ELSE asks
         IN IF ~finalize_sale_ok(collection_bid.price.amount, params) THEN Err("Overflow")
            ELSE Ok(params, asks1, bids, accept_collection_bid_units(collection_bid),
                    auctions,
                    finalize_sale_sends(collection_bid.price.amount, payment_recipient, params),
                    finalize_sale_nfts(collection_bid.bidder, token_id))

\* set_auction_reserve_ok without the comparison of lines 615-617
set_auction_reserve_any(auction) == TRUE

\* execute_set_auction: a reserve price is not below the starting price
set_auction_reserve_ok(auction) ==
    IsSome(auction.reserve_price) =>
        auction.reserve_price[1].amount >= auction.starting_price.amount

execute_set_auction(info, auction) ==
    IF ~nonpayable(info.funds) THEN Err("PaymentError")
    ELSE IF ~is_valid(params.auction_expiry, now, auction.expires_at)
         THEN Err("InvalidExpiration")
    ELSE IF ~only_owner(info.sender, auction.token_id) THEN Err("Unauthorized")
    ELSE IF ~price_validate(auction.starting_price, params) THEN Err("InvalidPrice")
    ELSE IF IsSome(auction.reserve_price)
            /\ ~price_validate(auction.reserve_price[1], params)
         THEN Err("InvalidPrice")
    ELSE IF ~set_auction_reserve_ok(auction) THEN Err("InvalidReservePrice")
    ELSE IF Has(auctions, auction.token_id) THEN Err("AuctionAlreadyExists")
    ELSE Ok(params, asks, bids, collection_bids,
            MapSave(auctions, auction.token_id, auction),
            <<>>, << transfer_nft(auction.token_id, Contract) >>)

\* query_bids_token_price, descending, filter_expiry = block time, limit 1:
\* the bids on the token not expired at the block time, the highest price
\* first, the greater key first among equal prices
LiveBids(token_id) ==
    {k \in DOMAIN bids : k[1] = token_id /\ ~is_expired(bids[k], now)}

Outranks(k1, k2) ==
    \/ bids[k1].price.amount > bids[k2].price.amount
    \/ /\ bids[k1].price.amount = bids[k2].price.amount
       /\ Rank(k1[2]) >= Rank(k2[2])

query_bids_token_price(token_id) ==
    IF LiveBids(token_id) = {} THEN <<>>
    ELSE << bids[CHOOSE k \in LiveBids(token_id) :
                    \A k2 \in LiveBids(token_id) : Outranks(k, k2)] >>

\* close_auction_highest_bid with filter_expiry: None for line 666: the highest
\* bid on the token, expired or not
close_auction_highest_bid_unfiltered(token_id) ==
    LET all == {k \in DOMAIN bids : k[1] = token_id} IN
    IF all = {} THEN <<>>
    ELSE << bids[CHOOSE k \in all : \A k2 \in all : Outranks(k, k2)] >>

\* execute_close_auction: the first bid of query_bids_token_price, descending,
\* filtered by expiry at the block time, limit 1
close_auction_highest_bid(token_id) == query_bids_token_price(token_id)

\* close_auction_reserve_price_met with > for the >= of line 678
close_auction_reserve_price_met_strict(auction, highest_bid) ==
    /\ IsSome(highest_bid)
    /\ IsSome(auction.reserve_price)
    /\ highest_bid[1].price.amount > auction.reserve_price[1].amount

\* execute_close_auction: the highest live bid meets the reserve price
close_auction_reserve_price_met(auction, highest_bid) ==
    /\ IsSome(highest_bid)
    /\ IsSome(auction.reserve_price)
    /\ highest_bid[1].price.amount >= auction.reserve_price[1].amount

\* close_auction_return without the transfer_nft of line 708
close_auction_return_none(auction, info) == <<>>

\* execute_close_auction: without a sale the token goes back to the caller
close_auction_return(auction, info) ==
    << transfer_nft(auction.token_id, info.sender) >>

\* close_auction_expired without the check of lines 657-659
close_auction_expired_never(auction) == FALSE

\* execute_close_auction: the auction is expired at the block time
close_auction_expired(auction) == is_expired(auction, now)

execute_close_auction(info, token_id, accept_highest_bid) ==
    IF ~nonpayable(info.funds) THEN Err("PaymentError")
    ELSE IF ~Has(auctions, token_id) THEN Err("NotFound")
    ELSE IF ~only_seller(info.sender, auctions[token_id].seller) THEN Err("Unauthorized")
    ELSE IF close_auction_expired(auctions[token_id]) THEN Err("AuctionExpired")
    ELSE LET auction == auctions[token_id]
             highest_bid == close_auction_highest_bid(token_id)
             reserve_price_met == close_auction_reserve_price_met(auction, highest_bid)
             is_sale == IsSome(highest_bid) /\ accept_highest_bid
         IN IF reserve_price_met THEN Err("ReservePriceRestriction")
            ELSE IF is_sale
            THEN IF ~finalize_sale_ok(highest_bid[1].price.amount, params)
                 THEN Err("Overflow")
                 ELSE Ok(params, asks, bids, collection_bids,
                         auctions,
                         finalize_sale_sends(highest_bid[1].price.amount,
                                             get_recipient(auction), params),
                         finalize_sale_nfts(highest_bid[1].bidder, auction.token_id))
            ELSE Ok(params, asks, bids, collection_bids,
                    auctions,
                    <<>>, close_auction_return(auction, info))

----------------------------------------------------------------------------
(* The host: the funds attached to a call reach the contract before the      *)
(* handler runs; the handler's messages run after it; the call commits when  *)
(* the handler and every message succeed, and has no effect otherwise.       *)

\* The amount of the settlement denom attached to a call
Paid(funds) ==
    IF Len(funds) = 1 /\ funds[1].denom = Denom THEN funds[1].amount ELSE 0

\* The bank sends of a response, run in order on balances b: a send fails when
\* the contract lacks the coins (it holds none of any other denom); a send of
\* nothing moves nothing
RECURSIVE RunSends(_, _)
RunSends(sends, b) ==
    IF sends = <<>> THEN [ok |-> TRUE, bal |-> b]
    ELSE LET m == Head(sends) IN
         IF m.coin.amount = 0 THEN RunSends(Tail(sends), b)
         ELSE IF m.coin.denom # Denom \/ b[Contract] < m.coin.amount
              THEN [ok |-> FALSE, bal |-> b]
         ELSE RunSends(Tail(sends),
                  LET b1 == [b EXCEPT ![Contract] = @ - m.coin.amount]
                  IN [b1 EXCEPT ![m.to] = @ + m.coin.amount])

\* The cw721 transfers of a response on ledger o: the contract may move a token
\* it owns, and a token whose owner approved it
RECURSIVE RunNfts(_, _, _)
RunNfts(nfts, o, approved) ==
    IF nfts = <<>> THEN [ok |-> TRUE, owner |-> o]
    ELSE LET m == Head(nfts) IN
         IF o[m.token_id] # Contract /\ ~approved
         THEN [ok |-> FALSE, owner |-> o]
         ELSE RunNfts(Tail(nfts), [o EXCEPT ![m.token_id] = m.to], approved)

\* Apply keeping the handler's storage writes when one of its messages fails
ApplyStorageKept(info, res, approved) ==
    LET b0 == [bal EXCEPT ![info.sender] = @ - Paid(info.funds)]
        b1 == [b0 EXCEPT ![Contract] = @ + Paid(info.funds)]
        s == RunSends(res.sends, b1)
        n == RunNfts(res.nfts, owner, approved)
    IN [ok |-> res.ok /\ s.ok /\ n.ok,
        err |-> IF res.ok THEN (IF s.ok /\ n.ok THEN "" ELSE "MessageFailed")
                ELSE res.err,
        params |-> res.params, asks |-> res.asks, bids |-> res.bids,
        collection_bids |-> res.collection_bids, auctions |-> res.auctions,
        owner |-> IF res.ok /\ s.ok /\ n.ok THEN n.owner ELSE owner,
        bal |-> IF res.ok /\ s.ok /\ n.ok THEN s.bal ELSE bal]

\* The state after a call with handler result res: committed, or as before
Apply(info, res, approved) ==
    LET b0 == [bal EXCEPT ![info.sender] = @ - Paid(info.funds)]
        b1 == [b0 EXCEPT ![Contract] = @ + Paid(info.funds)]
        s == RunSends(res.sends, b1)
        n == RunNfts(res.nfts, owner, approved)
    IN IF res.ok /\ s.ok /\ n.ok
       THEN [ok |-> TRUE, err |-> "", params |-> res.params, asks |-> res.asks,
             bids |-> res.bids, collection_bids |-> res.collection_bids,
             auctions |-> res.auctions, owner |-> n.owner, bal |-> s.bal]
       ELSE [ok |-> FALSE, err |-> IF res.ok THEN "MessageFailed" ELSE res.err,
             params |-> params, asks |-> asks, bids |-> bids,
             collection_bids |-> collection_bids, auctions |-> auctions,
             owner |-> owner, bal |-> bal]

\* One call: the sender holds the funds attached; the state becomes post. A
\* call that failed changed nothing; last records the calls that committed.
Call(op, info, msg, post) ==
    /\ Paid(info.funds) <= bal[info.sender]
    /\ params' = post.params
    /\ asks' = post.asks
    /\ bids' = post.bids
    /\ collection_bids' = post.collection_bids
    /\ auctions' = post.auctions
    /\ owner' = post.owner
    /\ bal' = post.bal
    /\ now' = now
    /\ IF post.ok
       THEN /\ calls' = calls + 1
            /\ last' = [op |-> op, sender |-> info.sender, msg |-> msg,
                        pre |-> [bal |-> bal, bids |-> bids]]
       ELSE UNCHANGED <<calls, last>>
    /\ UNCHANGED wvars

----------------------------------------------------------------------------
(* The requests drawn: the well-formed ones, and ones with a single defect *)

NoFunds == <<>>
\* funds attached to a call that takes none
StrayFunds == {NoFunds, <<coin(1, Denom)>>}
\* the expiry the ranges allow at block time t
GoodExpiry(t) == t + InitExpiryMin
\* the latest expiry the ranges allow at block time t
LateExpiry(t) == t + InitExpiryMax
\* the price at the floor, and a price below it
FloorPrice == coin(InitMinPrice, Denom)
LowPrice == coin(InitMinPrice - 1, Denom)
Recipients == {NoAddr, "carol"}
FeeChoices == {None, Some(0), Some(InitFeeBps)}
\* a trading_fee_bps above 100 percent
OverFeeBps == 20000
\* UpdateParams: <<trading_fee_bps, ask_expiry, bid_expiry, auction_expiry,
\* operators, min_price>>: one field given, or none
UpdateParamsRequests ==
    {<<fee, None, None, None, None, None>> : fee \in FeeChoices \cup {Some(OverFeeBps)}}
        \cup {<<None, Some([min |-> InitExpiryMax, max |-> InitExpiryMax]), None, None,
                None, None>>,
              <<None, None, Some([min |-> InitExpiryMax, max |-> InitExpiryMax]), None,
                None, None>>,
              <<None, None, None, Some([min |-> InitExpiryMax, max |-> InitExpiryMin]),
                None, None>>,
              <<None, None, None, None, Some({"bob"}), None>>,
              <<None, None, None, None, None, Some(InitMinPrice - 1)>>}

\* Every owner has approved the contract as operator of its tokens on the ledger
\* (ApproveAll), as listing a token requires
Approved == TRUE

Info(sender, funds) == [sender |-> sender, funds |-> funds]

\* SetAsk: <<price, funds_recipient, expires_at, funds>>
SetAskRequests ==
    {<<FloorPrice, r, GoodExpiry(now), NoFunds>> : r \in Recipients}
        \cup {<<FloorPrice, NoAddr, LateExpiry(now), NoFunds>>,
              <<LowPrice, NoAddr, GoodExpiry(now), NoFunds>>,
              <<FloorPrice, NoAddr, now, NoFunds>>,
              <<FloorPrice, NoAddr, GoodExpiry(now), <<coin(1, Denom)>> >>}

\* SetBid: <<price, expires_at, funds>>
SetBidRequests ==
    {<<p, GoodExpiry(now), <<p>> >> : p \in Prices}
        \cup {<<p, GoodExpiry(now), <<q>> >> : p \in Prices, q \in Prices}
        \cup {<<FloorPrice, LateExpiry(now), <<FloorPrice>> >>,
              <<FloorPrice, GoodExpiry(now), NoFunds>>,
              <<FloorPrice, GoodExpiry(now), <<coin(InitMinPrice, OtherDenom)>> >>,
              <<coin(InitMinPrice, OtherDenom), GoodExpiry(now), <<FloorPrice>> >>,
              <<FloorPrice, now, <<FloorPrice>> >>}

\* SetCollectionBid: <<units, price, expires_at, funds>>
SetCollectionBidRequests ==
    {<<u, p, GoodExpiry(now), <<coin(u * p.amount, Denom)>> >> :
        u \in 1..MaxUnits, p \in Prices \ {LowPrice}}
        \cup {<<1, LowPrice, GoodExpiry(now), <<LowPrice>> >>}
        \cup {<<1, FloorPrice, LateExpiry(now), <<FloorPrice>> >>,
              <<1, FloorPrice, GoodExpiry(now), NoFunds>>,
              <<1, FloorPrice, GoodExpiry(now), <<coin(InitMinPrice + 1, Denom)>> >>,
              <<1, FloorPrice, now, <<FloorPrice>> >>}

\* SetAuction: <<starting_price, reserve_price, funds_recipient, expires_at, funds>>
SetAuctionRequests ==
    {<<FloorPrice, rp, NoAddr, GoodExpiry(now), NoFunds>> :
        rp \in {None} \cup {Some(p) : p \in Prices}}
        \cup {<<FloorPrice, None, r, GoodExpiry(now), NoFunds>> : r \in Recipients}
        \cup {<<coin(InitMinPrice + 1, Denom), Some(FloorPrice), NoAddr,
                GoodExpiry(now), NoFunds>>,
              <<FloorPrice, None, NoAddr, LateExpiry(now), NoFunds>>,
              <<FloorPrice, None, NoAddr, now, NoFunds>>,
              <<FloorPrice, None, NoAddr, GoodExpiry(now), <<coin(1, Denom)>> >>}

\* The marketplace after instantiate
MarketInit ==
    /\ params = [cw721_address |-> "cw721", denom |-> Denom,
                 collector_address |-> Collector,
                 trading_fee_bps |-> InitFeeBps,
                 ask_expiry |-> [min |-> InitExpiryMin, max |-> InitExpiryMax],
                 bid_expiry |-> [min |-> InitExpiryMin, max |-> InitExpiryMax],
                 auction_expiry |-> [min |-> InitExpiryMin, max |-> InitExpiryMax],
                 operators |-> {"alice"},
                 min_price |-> InitMinPrice]
    /\ asks = EmptyMap
    /\ bids = EmptyMap
    /\ collection_bids = EmptyMap
    /\ auctions = EmptyMap
    /\ owner = [t \in Tokens |-> IF t = 1 THEN "alice" ELSE "bob"]
    /\ bal = [a \in Addrs |-> IF a \in Users THEN InitFunds ELSE 0]
    /\ now = 0
    /\ calls = 0
    /\ last = [op |-> "Instantiate", sender |-> "alice", msg |-> <<>>,
               pre |-> [bal |-> bal, bids |-> bids]]

\* A whitelist instantiated by alice with no member, to start at 1, to end at 2
WhitelistIdle ==
    /\ config = [admin |-> "alice", start_time |-> 1, end_time |-> 2,
                 num_members |-> 0, unit_price |-> coin(1, Denom),
                 per_address_limit |-> 1, member_limit |-> 1]
    /\ whitelist = {}
    /\ wnow = 0
    /\ wlast = [op |-> "Instantiate", sender |-> "alice", n |-> 0]

Init == MarketInit /\ WhitelistIdle

UpdateParams ==
    \E sender \in Users, r \in UpdateParamsRequests :
        LET info == Info(sender, NoFunds)
            msg == [trading_fee_bps |-> r[1], ask_expiry |-> r[2],
                    bid_expiry |-> r[3], auction_expiry |-> r[4],
                    operators |-> r[5], min_price |-> r[6]]
        IN Call("UpdateParams", info, msg,
                Apply(info, execute_update_params(info, r[1], r[2], r[3], r[4],
                                                  r[5], r[6]), Approved))

SetAsk ==
    \E sender \in Users, token_id \in Tokens, r \in SetAskRequests :
        LET info == Info(sender, r[4])
            ask == [token_id |-> token_id, seller |-> sender, price |-> r[1],
                    funds_recipient |-> r[2], expires_at |-> r[3]]
        IN Call("SetAsk", info, ask, Apply(info, execute_set_ask(info, ask), Approved))

RemoveAsk ==
    \E sender \in Users, token_id \in Tokens, funds \in StrayFunds :
        LET info == Info(sender, funds)
            msg == [token_id |-> token_id]
        IN Call("RemoveAsk", info, msg,
                Apply(info, execute_remove_ask(info, token_id), Approved))

SetBid ==
    \E sender \in Users, token_id \in Tokens, r \in SetBidRequests :
        LET info == Info(sender, r[3])
            bid == [token_id |-> token_id, bidder |-> sender, price |-> r[1],
                    expires_at |-> r[2]]
        IN Call("SetBid", info, bid, Apply(info, execute_set_bid(info, bid), Approved))

RemoveBid ==
    \E sender \in Users, token_id \in Tokens, funds \in StrayFunds :
        LET info == Info(sender, funds)
            msg == [token_id |-> token_id]
        IN Call("RemoveBid", info, msg,
                Apply(info, execute_remove_bid(info, token_id), Approved))

AcceptBid ==
    \E sender \in Users, token_id \in Tokens, bidder \in Users,
       funds \in StrayFunds :
        LET info == Info(sender, funds)
            msg == [token_id |-> token_id, bidder |-> bidder]
        IN Call("AcceptBid", info, msg,
                Apply(info, execute_accept_bid(info, token_id, bidder), Approved))

SetCollectionBid ==
    \E sender \in Users, r \in SetCollectionBidRequests :
        LET info == Info(sender, r[4])
            collection_bid == [units |-> r[1], price |-> r[2], bidder |-> sender,
                               expires_at |-> r[3]]
        IN Call("SetCollectionBid", info, collection_bid,
                Apply(info, execute_set_collection_bid(info, collection_bid), Approved))

RemoveCollectionBid ==
    \E sender \in Users, funds \in StrayFunds :
        LET info == Info(sender, funds)
        IN Call("RemoveCollectionBid", info, <<>>,
                Apply(info, execute_remove_collection_bid(info), Approved))

AcceptCollectionBid ==
    \E sender \in Users, token_id \in Tokens, bidder \in Users,
       funds \in StrayFunds :
        LET info == Info(sender, funds)
            msg == [token_id |-> token_id, bidder |-> bidder]
        IN Call("AcceptCollectionBid", info, msg,
                Apply(info, execute_accept_collection_bid(info, token_id, bidder),
                      Approved))

SetAuction ==
    \E sender \in Users, token_id \in Tokens, r \in SetAuctionRequests :
        LET info == Info(sender, r[5])
            auction == [token_id |-> token_id, seller |-> sender,
                        starting_price |-> r[1], reserve_price |-> r[2],
                        funds_recipient |-> r[3], expires_at |-> r[4]]
        IN Call("SetAuction", info, auction,
                Apply(info, execute_set_auction(info, auction), Approved))

CloseAuction ==
    \E sender \in Users, token_id \in Tokens, accept_highest_bid \in BOOLEAN,
       funds \in StrayFunds :
        LET info == Info(sender, funds)
            msg == [token_id |-> token_id, accept_highest_bid |-> accept_highest_bid]
        IN Call("CloseAuction", info, msg,
                Apply(info, execute_close_auction(info, token_id, accept_highest_bid),
                      Approved))

\* The block time advances
Tick ==
    /\ now < MaxTime
    /\ now' = now + 1
    /\ last' = [op |-> "Tick", sender |-> NoAddr, msg |-> <<>>,
                pre |-> [bal |-> bal, bids |-> bids]]
    /\ UNCHANGED <<params, asks, bids, collection_bids, auctions, owner, bal, calls>>
    /\ UNCHANGED wvars

\* The eleven operations of ExecuteMsg, while calls remain, and the clock
Next ==
    \/ (calls < MaxCalls /\ UpdateParams)
    \/ (calls < MaxCalls /\ SetAsk)
    \/ (calls < MaxCalls /\ RemoveAsk)
    \/ (calls < MaxCalls /\ SetBid)
    \/ (calls < MaxCalls /\ RemoveBid)
    \/ (calls < MaxCalls /\ AcceptBid)
    \/ (calls < MaxCalls /\ SetCollectionBid)
    \/ (calls < MaxCalls /\ RemoveCollectionBid)
    \/ (calls < MaxCalls /\ AcceptCollectionBid)
    \/ (calls < MaxCalls /\ SetAuction)
    \/ (calls < MaxCalls /\ CloseAuction)
    \/ Tick

Spec == Init /\ [][Next]_vars

\* Listings alone: asks and auctions, set and closed, over more calls
NextListing ==
    \/ (calls < MaxListingCalls /\ SetAsk)
    \/ (calls < MaxListingCalls /\ SetAuction)
    \/ (calls < MaxListingCalls /\ CloseAuction)

SpecListing == Init /\ [][NextListing]_vars

----------------------------------------------------------------------------
(* The escrow the registries account for *)

RECURSIVE SumBids(_)
SumBids(keys) ==
    IF keys = {} THEN 0
    ELSE LET k == CHOOSE x \in keys : TRUE
         IN bids[k].price.amount + SumBids(keys \ {k})

RECURSIVE SumCollectionBids(_)
SumCollectionBids(keys) ==
    IF keys = {} THEN 0
    ELSE LET k == CHOOSE x \in keys : TRUE
         IN total_cost(collection_bids[k]) + SumCollectionBids(keys \ {k})

Escrow == SumBids(DOMAIN bids) + SumCollectionBids(DOMAIN collection_bids)

----------------------------------------------------------------------------
\* C1: the settlement-currency balance of the contract equals the sum of the
\* prices of the stored bids plus price * units of the stored collection bids.
\* The code refunds a removed or replaced collection bid by its unit price
\* only, and a closed auction pays a bid out without removing it.
C1_EscrowConservation == bal[Contract] = Escrow

\* C2: no token has both an ask and an auction. The code never removes an
\* auction, so its seller lists the token again once the close returned it.
C2_AskXorAuction == \A t \in Tokens : ~(Has(asks, t) /\ Has(auctions, t))

----------------------------------------------------------------------------
(* The calls the properties below speak of, made in the current state *)

Gain(x, a, amount) == IF x = a THEN amount ELSE 0

\* the fee the parameters set on a gross amount: amount * feePercent / 100,
\* feePercent being trading_fee_bps / 100
FeeOf(amount) == (amount * params.trading_fee_bps) \div 10000

BidOf(bidder, token_id, price) ==
    [token_id |-> token_id, bidder |-> bidder, price |-> price,
     expires_at |-> GoodExpiry(now)]

\* SetBid by a bidder who attaches funds
SetBidPost(bidder, token_id, price, funds) ==
    Apply(Info(bidder, funds),
          execute_set_bid(Info(bidder, funds), BidOf(bidder, token_id, price)),
          Approved)

RemoveBidPost(bidder, token_id) ==
    Apply(Info(bidder, NoFunds), execute_remove_bid(Info(bidder, NoFunds), token_id),
          Approved)

SetAskPost(sender, token_id, r) ==
    Apply(Info(sender, r[4]),
          execute_set_ask(Info(sender, r[4]),
                          [token_id |-> token_id, seller |-> sender, price |-> r[1],
                           funds_recipient |-> r[2], expires_at |-> r[3]]),
          Approved)

CollectionBidOf(bidder, units, price) ==
    [units |-> units, price |-> price, bidder |-> bidder,
     expires_at |-> GoodExpiry(now)]

SetCollectionBidPost(bidder, units, price) ==
    Apply(Info(bidder, <<coin(units * price.amount, Denom)>>),
          execute_set_collection_bid(Info(bidder, <<coin(units * price.amount, Denom)>>),
                                     CollectionBidOf(bidder, units, price)),
          Approved)

RemoveCollectionBidPost(bidder) ==
    Apply(Info(bidder, NoFunds), execute_remove_collection_bid(Info(bidder, NoFunds)),
          Approved)

AcceptCollectionBidPost(sender, token_id, bidder) ==
    Apply(Info(sender, NoFunds),
          execute_accept_collection_bid(Info(sender, NoFunds), token_id, bidder),
          Approved)

CloseAuctionPost(sender, token_id, accept_highest_bid, funds) ==
    Apply(Info(sender, funds),
          execute_close_auction(Info(sender, funds), token_id, accept_highest_bid),
          Approved)

AcceptBidPost(sender, token_id, bidder, funds) ==
    Apply(Info(sender, funds), execute_accept_bid(Info(sender, funds), token_id, bidder),
          Approved)

\* the price of the bid stored under a key, 0 when there is none
OldPrice(b, key) == IF Has(b, key) THEN b[key].price.amount ELSE 0

\* who is paid for a token sold outside an auction: the recipient of its ask,
\* the caller when it has none
PayeeOf(token_id, sender) ==
    IF Has(asks, token_id) THEN get_recipient(asks[token_id]) ELSE sender

----------------------------------------------------------------------------
\* C3: after a successful SetAsk the token has an ask and is in the custody of
\* the contract, and the call moved the token exactly when no ask existed before.
\* A second CloseAuction on a never-removed auction takes a listed token out of
\* custody, and the re-listing that follows leaves it there.
C3_SetAskCustody ==
    \A sender \in Users, t \in Tokens, r \in SetAskRequests :
        LET post == SetAskPost(sender, t, r) IN
        post.ok =>
            /\ Has(post.asks, t)
            /\ post.owner[t] = Contract
            /\ (post.owner[t] # owner[t] <=> ~Has(asks, t))

\* C4: a successful SetBid paid in full on a token with an ask removes the ask,
\* gives the token to the bidder, pays the fee to the collector and the rest to
\* the recipient of the ask, and stores no bid; on a token without an ask it
\* stores the bid and moves no token and no payout.
C4_SetBidMarketOrder ==
    \A b \in Users, t \in Tokens, p \in Prices :
        LET post == SetBidPost(b, t, p, <<p>>)
            key == <<t, b>>
            old == OldPrice(bids, key)
            fee == FeeOf(p.amount)
        IN (p.amount <= bal[b] /\ post.ok) =>
            IF Has(asks, t)
            THEN /\ ~Has(post.asks, t)
                 /\ post.owner[t] = b
                 /\ ~Has(post.bids, key)
                 /\ \A x \in Addrs :
                        post.bal[x] = bal[x] - Gain(x, b, p.amount) + Gain(x, b, old)
                                      - Gain(x, Contract, old)
                                      + Gain(x, Collector, fee)
                                      + Gain(x, get_recipient(asks[t]), p.amount - fee)
            ELSE /\ Has(post.bids, key)
                 /\ post.bids[key] = BidOf(b, t, p)
                 /\ post.asks = asks
                 /\ post.owner = owner
                 /\ \A x \in Addrs \ {b, Contract} : post.bal[x] = bal[x]

\* C4 witness: a SetBid met an ask: the bidder owns the token, no ask and no
\* bid of the bidder are left, and the collector was paid
C4_Witness ==
    /\ last.op = "SetBid"
    /\ owner[last.msg.token_id] = last.sender
    /\ ~Has(asks, last.msg.token_id)
    /\ ~Has(bids, <<last.msg.token_id, last.sender>>)
    /\ bal[Collector] > last.pre.bal[Collector]

\* C5: a successful SetBid by a bidder with a bid on a token without an ask
\* leaves one bid of the bidder there, at the new price; the old price went
\* back to the bidder, whose balance changed by -(new price - old price).
C5_ReplaceAndRefund ==
    \A b \in Users, t \in Tokens, p \in Prices :
        LET post == SetBidPost(b, t, p, <<p>>)
            key == <<t, b>>
        IN (Has(bids, key) /\ ~Has(asks, t) /\ p.amount <= bal[b] /\ post.ok) =>
            /\ Has(post.bids, key)
            /\ post.bids[key] = BidOf(b, t, p)
            /\ \A k \in DOMAIN post.bids : k # key => Has(bids, k) /\ post.bids[k] = bids[k]
            /\ post.bal[b] = bal[b] - (p.amount - bids[key].price.amount)
            /\ post.bal[Contract] = bal[Contract] + (p.amount - bids[key].price.amount)
            /\ \A x \in Addrs \ {b, Contract} : post.bal[x] = bal[x]

\* C5 witness: a SetBid replaced a bid of another price
C5_Witness ==
    /\ last.op = "SetBid"
    /\ Has(last.pre.bids, <<last.msg.token_id, last.sender>>)
    /\ Has(bids, <<last.msg.token_id, last.sender>>)
    /\ bids[<<last.msg.token_id, last.sender>>].price
           # last.pre.bids[<<last.msg.token_id, last.sender>>].price

C7_BadPaymentRejected ==
    \A b \in Users, t \in Tokens, p \in Prices,
       funds \in {NoFunds, <<coin(InitMinPrice, OtherDenom)>>} \cup {<<q>> : q \in Prices} :
        LET post == SetBidPost(b, t, p, funds) IN
        (funds # <<p>> /\ Paid(funds) <= bal[b]) =>
            /\ ~post.ok
            /\ post.asks = asks /\ post.bids = bids
            /\ post.collection_bids = collection_bids /\ post.auctions = auctions
            /\ post.bal = bal /\ post.owner = owner /\ post.params = params

\* C7 witness: a bidder who holds a bid offers a price on a token that has an
\* ask and attaches another amount: IncorrectBidPayment
C7_Witness ==
    \E b \in Users, t \in Tokens :
        /\ Has(asks, t)
        /\ \E k \in DOMAIN bids : k[2] = b
        /\ bal[b] >= MaxPrice
        /\ execute_set_bid(Info(b, <<coin(MaxPrice, Denom)>>),
                           BidOf(b, t, FloorPrice)).err = "IncorrectBidPayment"

\* C8: a successful SetCollectionBid stores the units and the unit price asked;
\* each successful AcceptCollectionBid takes one unit price out of the contract
\* (the fee to the collector, the rest to the payee), gives the token to the
\* bidder, and leaves the record with one unit less, or deletes it at one unit.
C8_PartialFill ==
    /\ \A b \in Users, u \in 1..MaxUnits, p \in Prices :
           LET post == SetCollectionBidPost(b, u, p) IN
           (u * p.amount <= bal[b] /\ post.ok) =>
               /\ Has(post.collection_bids, b)
               /\ post.collection_bids[b].units = u
               /\ post.collection_bids[b].price = p
    /\ \A s \in Users, t \in Tokens, b \in Users :
           LET post == AcceptCollectionBidPost(s, t, b) IN
           post.ok =>
               LET cb == collection_bids[b]
                   fee == FeeOf(cb.price.amount)
               IN /\ IF cb.units = 1 THEN ~Has(post.collection_bids, b)
                     ELSE /\ Has(post.collection_bids, b)
                          /\ post.collection_bids[b] = [cb EXCEPT !.units = cb.units - 1]
                  /\ post.owner[t] = b
                  /\ \A x \in Addrs :
                         post.bal[x] = bal[x] - Gain(x, Contract, cb.price.amount)
                                       + Gain(x, Collector, fee)
                                       + Gain(x, PayeeOf(t, s), cb.price.amount - fee)

\* C8 witness: an AcceptCollectionBid left units in the record it filled
C8_Witness ==
    /\ last.op = "AcceptCollectionBid"
    /\ Has(collection_bids, last.msg.bidder)
    /\ collection_bids[last.msg.bidder].units >= 1
    /\ owner[last.msg.token_id] = last.msg.bidder
    /\ bal[Collector] > last.pre.bal[Collector]

\* C9: a successful RemoveCollectionBid deletes the collection bid of the
\* caller and refunds price * units to the caller and nothing to anyone else.
\* The code refunds the unit price.
C9_RemoveCollectionBidRefund ==
    \A b \in Users :
        LET post == RemoveCollectionBidPost(b) IN
        post.ok =>
            /\ ~Has(post.collection_bids, b)
            /\ post.bal[b] = bal[b] + total_cost(collection_bids[b])
            /\ \A x \in Addrs \ {b, Contract} : post.bal[x] = bal[x]

\* C10: a successful SetCollectionBid by a bidder with a collection bid leaves
\* one collection bid of the bidder, with the units and unit price of the
\* request, and refunds old price * old units to the bidder. The code refunds
\* the old unit price.
C10_ReplaceCollectionBid ==
    \A b \in Users, u \in 1..MaxUnits, p \in Prices :
        LET post == SetCollectionBidPost(b, u, p) IN
        (Has(collection_bids, b) /\ u * p.amount <= bal[b] /\ post.ok) =>
            /\ Has(post.collection_bids, b)
            /\ post.collection_bids[b] = CollectionBidOf(b, u, p)
            /\ post.bal[b] = bal[b] - u * p.amount + total_cost(collection_bids[b])

----------------------------------------------------------------------------
\* the bids on a token in a registry
BidsOn(b, token_id) == {k \in DOMAIN b : k[1] = token_id}

\* the highest live bid on a token is below the reserve of its auction, or
\* the token has no live bid
BelowReserve(token_id) ==
    /\ IsSome(auctions[token_id].reserve_price)
    /\ \A k \in LiveBids(token_id) :
           bids[k].price.amount < auctions[token_id].reserve_price[1].amount

\* the highest live bid on a token is at or above the reserve of its auction
ReserveMet(token_id) ==
    /\ IsSome(auctions[token_id].reserve_price)
    /\ \E k \in LiveBids(token_id) :
           bids[k].price.amount >= auctions[token_id].reserve_price[1].amount

C12_DeclineForbidden ==
    \A t \in Tokens :
        (Has(auctions, t) /\ ReserveMet(t)) =>
            /\ \A sender \in Users, funds \in StrayFunds :
                   LET post == CloseAuctionPost(sender, t, FALSE, funds) IN
                   (Paid(funds) <= bal[sender]) =>
                       /\ ~post.ok
                       /\ post.asks = asks /\ post.bids = bids
                       /\ post.collection_bids = collection_bids
                       /\ post.auctions = auctions /\ post.params = params
                       /\ post.bal = bal /\ post.owner = owner
            /\ ~is_expired(auctions[t], now) =>
                   CloseAuctionPost(auctions[t].seller, t, FALSE, NoFunds).err
                       = "ReservePriceRestriction"

\* C12 witness: a token in custody under an auction whose reserve a live bid
\* meets exactly; the seller's declining close is refused
C12_Witness ==
    \E t \in Tokens :
        /\ Has(auctions, t)
        /\ owner[t] = Contract
        /\ ~is_expired(auctions[t], now)
        /\ ReserveMet(t)
        /\ query_bids_token_price(t)[1].price.amount
               = auctions[t].reserve_price[1].amount
        /\ CloseAuctionPost(auctions[t].seller, t, FALSE, NoFunds).err
               = "ReservePriceRestriction"

\* C13: on an auction that has not expired, with a reserve and a live bid at
\* or above it, CloseAuction accepting the highest bid, by the seller, succeeds:
\* the highest bidder owns the token, and the bid's price left the contract,
\* the fee to the collector and the rest to the recipient of the auction.
\* The code refuses the close once the reserve is met, accepting or not.
C13_AcceptAtReserve ==
    \A t \in Tokens :
        (Has(auctions, t) /\ ~is_expired(auctions[t], now) /\ ReserveMet(t)
            /\ owner[t] = Contract /\ bal[Contract] >= Escrow) =>
            LET post == CloseAuctionPost(auctions[t].seller, t, TRUE, NoFunds)
                bid == query_bids_token_price(t)[1]
                fee == FeeOf(bid.price.amount)
            IN /\ post.ok
               /\ post.owner[t] = bid.bidder
               /\ \A x \in Addrs :
                      post.bal[x] = bal[x] - Gain(x, Contract, bid.price.amount)
                                    + Gain(x, Collector, fee)
                                    + Gain(x, get_recipient(auctions[t]),
                                           bid.price.amount - fee)

\* C14: once a CloseAuction on a token succeeded, the token has no auction, a
\* further CloseAuction on it fails, and a SetAuction on it by its owner is not
\* refused as a duplicate. The code never removes the auction it closed.
C14_TerminalOnClose ==
    (last.op = "CloseAuction") =>
        LET t == last.msg.token_id IN
        /\ ~Has(auctions, t)
        /\ \A sender \in Users, accept_highest_bid \in BOOLEAN :
               ~CloseAuctionPost(sender, t, accept_highest_bid, NoFunds).ok
        /\ \A sender \in Users :
               execute_set_auction(Info(sender, NoFunds),
                   [token_id |-> t, seller |-> sender, starting_price |-> FloorPrice,
                    reserve_price |-> None, funds_recipient |-> NoAddr,
                    expires_at |-> GoodExpiry(now)]).err # "AuctionAlreadyExists"

\* C15: a successful AcceptBid deletes the bid and no other, takes the bid's
\* price out of the contract, the fee to the collector and the rest to the
\* payee, and gives the token to the bidder; the payee is the recipient of the
\* ask on the token, which is removed, or the caller when the token has none.
C15_AcceptBidSettlement ==
    \A s \in Users, t \in Tokens, b \in Users :
        LET post == AcceptBidPost(s, t, b, NoFunds)
            key == <<t, b>>
        IN post.ok =>
            LET price == bids[key].price.amount
                fee == FeeOf(price)
            IN /\ post.bids = [k \in DOMAIN bids \ {key} |-> bids[k]]
               /\ post.asks = [k \in DOMAIN asks \ {t} |-> asks[k]]
               /\ post.owner = [owner EXCEPT ![t] = b]
               /\ fee <= price
               /\ \A x \in Addrs :
                      post.bal[x] = bal[x] - Gain(x, Contract, price)
                                    + Gain(x, Collector, fee)
                                    + Gain(x, PayeeOf(t, s), price - fee)
               /\ post.collection_bids = collection_bids
               /\ post.auctions = auctions /\ post.params = params

\* C15 witness: an AcceptBid sold the token to the bidder and paid a recipient
\* who is not the caller
C15_Witness ==
    /\ last.op = "AcceptBid"
    /\ owner[last.msg.token_id] = last.msg.bidder
    /\ Has(last.pre.bids, <<last.msg.token_id, last.msg.bidder>>)
    /\ ~Has(bids, <<last.msg.token_id, last.msg.bidder>>)
    /\ ~Has(asks, last.msg.token_id)
    /\ bal[Collector] > last.pre.bal[Collector]
    /\ bal["carol"] > last.pre.bal["carol"]
    /\ bal[last.sender] = last.pre.bal[last.sender]

\* a post-state that is the current state
Unchanged(post) ==
    /\ post.params = params /\ post.asks = asks /\ post.bids = bids
    /\ post.collection_bids = collection_bids /\ post.auctions = auctions
    /\ post.owner = owner /\ post.bal = bal

\* AcceptBid on an expired bid and AcceptCollectionBid on an expired collection
\* bid fail with BidExpired, whoever calls, and change nothing
ExpiredRejected ==
    \A b \in Users, s \in Users, t \in Tokens :
        /\ (Has(bids, <<t, b>>) /\ is_expired(bids[<<t, b>>], now)) =>
               LET post == AcceptBidPost(s, t, b, NoFunds) IN
               ~post.ok /\ post.err = "BidExpired" /\ Unchanged(post)
        /\ (Has(collection_bids, b) /\ is_expired(collection_bids[b], now)) =>
               LET post == AcceptCollectionBidPost(s, t, b) IN
               ~post.ok /\ post.err = "BidExpired" /\ Unchanged(post)

\* the bidder of an expired bid or collection bid removes it and has the
\* escrow back: the price of the bid, price * units of the collection bid
ExpiredRecovered ==
    \A b \in Users :
        /\ \A t \in Tokens :
               (Has(bids, <<t, b>>) /\ is_expired(bids[<<t, b>>], now)) =>
                   LET post == RemoveBidPost(b, t) IN
                   /\ post.ok
                   /\ ~Has(post.bids, <<t, b>>)
                   /\ post.bal[b] = bal[b] + bids[<<t, b>>].price.amount
        /\ (Has(collection_bids, b) /\ is_expired(collection_bids[b], now)) =>
               LET post == RemoveCollectionBidPost(b) IN
               /\ post.ok
               /\ ~Has(post.collection_bids, b)
               /\ post.bal[b] = bal[b] + total_cost(collection_bids[b])

\* C16: accepting a bid or a collection bid whose expiry is at or before the
\* block time fails with BidExpired and changes nothing, and its bidder still
\* removes it and recovers the escrow. The refusal holds; the recovery does not:
\* RemoveCollectionBid gives back one unit price, and RemoveBid fails on a bid
\* that a CloseAuction has already paid out.
C16_ExpiredNotAccepted == ExpiredRejected /\ ExpiredRecovered

\* UpdateParams from a sender outside the operator set fails, whatever it asks
NonOperatorRefused ==
    \A sender \in Users, r \in UpdateParamsRequests :
        LET info == Info(sender, NoFunds)
            post == Apply(info, execute_update_params(info, r[1], r[2], r[3], r[4],
                                                      r[5], r[6]), Approved)
        IN sender \notin params.operators => (~post.ok /\ post.params = params)

\* a step that changes the parameters is an UpdateParams by an operator of the
\* parameters it changes
ParamsStep ==
    params' # params =>
        /\ last'.op = "UpdateParams"
        /\ last'.sender \in params.operators

\* C17: UpdateParams by a sender outside the current operator set fails and
\* leaves the parameters as they are, and the parameters change only in a
\* successful UpdateParams by a member of the operator set they held.
C17_ParamsFrame == [](NonOperatorRefused) /\ [][ParamsStep]_vars

\* C17 witness: an operator other than the first one changed the parameters
C17_Witness ==
    /\ last.op = "UpdateParams"
    /\ last.sender = "bob"
    /\ params.operators = {"bob"}
    /\ params.trading_fee_bps # InitFeeBps

\* C18: the stored fee percent, trading_fee_bps / 100, is between 0 and 100,
\* so that the fee on any gross amount is at most the amount, and fee and payout
\* add up to it. Neither instantiate nor UpdateParams bounds trading_fee_bps.
C18_FeePercentRange ==
    /\ 0 <= params.trading_fee_bps /\ params.trading_fee_bps <= 100 * 100
    /\ \A a \in Amounts :
           /\ market_fee(a, params) <= a
           /\ finalize_sale_ok(a, params)
           /\ market_fee(a, params) + (a - market_fee(a, params)) = a

\* the expiries a request may carry
Expiries == 0..(MaxTime + InitExpiryMax + 1)

\* a request whose expiry is outside the range of its record type fails
OutOfRangeRefused ==
    \A sender \in Users, t \in Tokens, e \in Expiries :
        /\ ~is_valid(params.ask_expiry, now, e) =>
               ~SetAskPost(sender, t, <<FloorPrice, NoAddr, e, NoFunds>>).ok
        /\ ~is_valid(params.bid_expiry, now, e) =>
               /\ LET info == Info(sender, <<FloorPrice>>)
                      bid == [token_id |-> t, bidder |-> sender, price |-> FloorPrice,
                              expires_at |-> e]
                  IN ~Apply(info, execute_set_bid(info, bid), Approved).ok
               /\ LET info == Info(sender, <<FloorPrice>>)
                      cb == [units |-> 1, price |-> FloorPrice, bidder |-> sender,
                             expires_at |-> e]
                  IN ~Apply(info, execute_set_collection_bid(info, cb), Approved).ok
        /\ ~is_valid(params.auction_expiry, now, e) =>
               LET info == Info(sender, NoFunds)
                   auction == [token_id |-> t, seller |-> sender,
                               starting_price |-> FloorPrice, reserve_price |-> None,
                               funds_recipient |-> NoAddr, expires_at |-> e]
               IN ~Apply(info, execute_set_auction(info, auction), Approved).ok

\* a record is new in registry r2 at key k, against registry r1
Stored(r1, r2, k) == Has(r2, k) /\ (~Has(r1, k) \/ r2[k] # r1[k])

\* a step stores a record only as the request of a call of its setter, with an
\* expiry in the range the parameters of the step give its type; the one other
\* change of a record is the unit an AcceptCollectionBid takes
ExpiryStep ==
    /\ \A t \in Tokens :
           /\ Stored(asks, asks', t) =>
                  /\ last'.op = "SetAsk" /\ asks'[t] = last'.msg
                  /\ is_valid(params.ask_expiry, now, asks'[t].expires_at)
           /\ Stored(auctions, auctions', t) =>
                  /\ last'.op = "SetAuction" /\ auctions'[t] = last'.msg
                  /\ is_valid(params.auction_expiry, now, auctions'[t].expires_at)
           /\ \A b \in Users :
                  Stored(bids, bids', <<t, b>>) =>
                      /\ last'.op = "SetBid" /\ bids'[<<t, b>>] = last'.msg
                      /\ is_valid(params.bid_expiry, now, bids'[<<t, b>>].expires_at)
    /\ \A b \in Users :
           Stored(collection_bids, collection_bids', b) =>
               \/ /\ last'.op = "SetCollectionBid"
                  /\ collection_bids'[b] = last'.msg
                  /\ is_valid(params.bid_expiry, now, collection_bids'[b].expires_at)
               \/ /\ last'.op = "AcceptCollectionBid"
                  /\ Has(collection_bids, b)
                  /\ collection_bids'[b].expires_at = collection_bids[b].expires_at

\* C19: every ask, bid, collection bid and auction is stored by a call whose
\* block time T and parameters put its expiry E within the range of its type,
\* min <= E - T <= max, and a request with an expiry outside that range fails.
C19_ExpiryInRange == [](OutOfRangeRefused) /\ [][ExpiryStep]_vars

\* C19 witness: an ask stored at the upper end of the ask range after an
\* UpdateParams narrowed the range to that end
C19_Witness ==
    /\ last.op = "SetAsk"
    /\ params.ask_expiry = [min |-> InitExpiryMax, max |-> InitExpiryMax]
    /\ Has(asks, last.msg.token_id)
    /\ asks[last.msg.token_id].expires_at = now + InitExpiryMax

\* a call that fails leaves the state as it was
Atomic(post) == ~post.ok => Unchanged(post)

SetAuctionPost(sender, token_id, r) ==
    Apply(Info(sender, r[5]),
          execute_set_auction(Info(sender, r[5]),
              [token_id |-> token_id, seller |-> sender, starting_price |-> r[1],
               reserve_price |-> r[2], funds_recipient |-> r[3], expires_at |-> r[4]]),
          Approved)

\* C21: a SetAuction succeeds only from the owner of the token, on a token
\* without an auction, with a reserve price, if any, at or above the starting
\* price; it then stores the auction and takes custody; a SetAuction that fails
\* stores nothing and moves no token; every stored auction with a reserve has
\* it at or above its starting price.
C21_SetAuctionGuards ==
    /\ \A sender \in Users, t \in Tokens, r \in SetAuctionRequests :
           LET post == SetAuctionPost(sender, t, r) IN
           /\ post.ok =>
                  /\ owner[t] = sender
                  /\ ~Has(auctions, t)
                  /\ IsSome(r[2]) => r[2][1].amount >= r[1].amount
                  /\ Has(post.auctions, t)
                  /\ post.auctions[t].seller = sender
                  /\ post.auctions[t].starting_price = r[1]
                  /\ post.auctions[t].reserve_price = r[2]
                  /\ post.owner = [owner EXCEPT ![t] = Contract]
           /\ ~post.ok => (post.auctions = auctions /\ post.owner = owner)
    /\ \A t \in DOMAIN auctions :
           IsSome(auctions[t].reserve_price) =>
               auctions[t].reserve_price[1].amount >= auctions[t].starting_price.amount

\* C21 witness: an auction with a reserve above its starting price was stored
\* and holds the token, and a reserve below the starting price would be refused
C21_Witness ==
    /\ last.op = "SetAuction"
    /\ Has(auctions, last.msg.token_id)
    /\ IsSome(auctions[last.msg.token_id].reserve_price)
    /\ auctions[last.msg.token_id].reserve_price[1].amount
           > auctions[last.msg.token_id].starting_price.amount
    /\ owner[last.msg.token_id] = Contract
    /\ \E sender \in Users, t \in Tokens :
           execute_set_auction(Info(sender, NoFunds),
               [token_id |-> t, seller |-> sender,
                starting_price |-> coin(InitMinPrice + 1, Denom),
                reserve_price |-> Some(FloorPrice), funds_recipient |-> NoAddr,
                expires_at |-> GoodExpiry(now)]).err = "InvalidReservePrice"

\* the token is held for its auction: in custody, and under no ask
HeldForAuction(t) == Has(auctions, t) /\ owner[t] = Contract /\ ~Has(asks, t)

\* every CloseAuction on an expired auction fails, the seller's with AuctionExpired
ExpiredCloseRefused ==
    \A t \in Tokens :
        (Has(auctions, t) /\ is_expired(auctions[t], now)) =>
            /\ \A sender \in Users, accept_highest_bid \in BOOLEAN, funds \in StrayFunds :
                   ~CloseAuctionPost(sender, t, accept_highest_bid, funds).ok
            /\ \A accept_highest_bid \in BOOLEAN :
                   CloseAuctionPost(auctions[t].seller, t, accept_highest_bid,
                                    NoFunds).err = "AuctionExpired"

\* an expired auction stays stored and expired, and the token held for it
\* stays held for it, whatever the step
StuckStep ==
    \A t \in Tokens :
        (Has(auctions, t) /\ is_expired(auctions[t], now)) =>
            /\ Has(auctions', t) /\ is_expired(auctions'[t], now')
            /\ HeldForAuction(t) => (owner'[t] = Contract /\ ~Has(asks', t))

\* C22: once the block time reached the expiry of an auction that was not
\* closed, every CloseAuction on it fails with AuctionExpired, in that state
\* and in every later one, and no call takes the token out of custody.
C22_ExpiredAuctionStuck == [](ExpiredCloseRefused) /\ [][StuckStep]_vars

\* C22 witness: a call committed while a token sat in custody under an expired
\* auction
C22_Witness ==
    \E t \in Tokens :
        /\ HeldForAuction(t)
        /\ is_expired(auctions[t], now)
        /\ last.op \notin {"Tick", "Instantiate", "SetAuction"}

\* C23: a CloseAuction that sells gives the token to a bidder with a bid on
\* that token that is not expired at the block time and whose price no other
\* such bid exceeds, and settles that price: the fee to the collector, the rest
\* to the recipient of the auction.
C23_HighestLiveBidWins ==
    \A sender \in Users, t \in Tokens :
        LET post == CloseAuctionPost(sender, t, TRUE, NoFunds) IN
        (post.ok /\ LiveBids(t) # {}) =>
            \E k \in LiveBids(t) :
                /\ k[1] = t /\ ~is_expired(bids[k], now)
                /\ \A k2 \in DOMAIN bids :
                       (k2[1] = t /\ ~is_expired(bids[k2], now)) =>
                           bids[k2].price.amount <= bids[k].price.amount
                /\ post.owner = [owner EXCEPT ![t] = k[2]]
                /\ LET price == bids[k].price.amount
                       fee == FeeOf(price)
                   IN \A x \in Addrs :
                          post.bal[x] = bal[x] - Gain(x, Contract, price)
                                        + Gain(x, Collector, fee)
                                        + Gain(x, get_recipient(auctions[t]), price - fee)

\* C23 witness: a token in custody under an auction, with an expired bid and a
\* lower bid that is not expired; the seller's accepting close sells to the
\* bidder of the lower one
C23_Witness ==
    \E t \in Tokens :
        /\ HeldForAuction(t)
        /\ \E k \in LiveBids(t), k2 \in BidsOn(bids, t) :
               /\ is_expired(bids[k2], now)
               /\ bids[k2].price.amount > bids[k].price.amount
               /\ CloseAuctionPost(auctions[t].seller, t, TRUE, NoFunds).ok
               /\ CloseAuctionPost(auctions[t].seller, t, TRUE, NoFunds).owner[t] = k[2]

\* C24: RemoveBid by an address fails when the address has no bid on the
\* token; when it succeeds it deletes the bid of that address on that token and
\* no other, refunds that bid's price to that address, and pays no one else.
C24_RemoveOwnBidOnly ==
    \A a \in Users, t \in Tokens, funds \in StrayFunds :
        LET info == Info(a, funds)
            post == Apply(info, execute_remove_bid(info, t), Approved)
            key == <<t, a>>
        IN /\ ~Has(bids, key) => ~post.ok
           /\ post.ok =>
                  /\ funds = NoFunds
                  /\ post.bids = [k \in DOMAIN bids \ {key} |-> bids[k]]
                  /\ \A x \in Addrs :
                         post.bal[x] = bal[x] + Gain(x, a, bids[key].price.amount)
                                       - Gain(x, Contract, bids[key].price.amount)
                  /\ post.asks = asks /\ post.owner = owner
                  /\ post.collection_bids = collection_bids
                  /\ post.auctions = auctions

\* C24 witness: a bidder removed its bid on a token and was refunded, and the
\* bid of the other bidder on that token is still there
C24_Witness ==
    /\ last.op = "RemoveBid"
    /\ Has(last.pre.bids, <<last.msg.token_id, last.sender>>)
    /\ ~Has(bids, <<last.msg.token_id, last.sender>>)
    /\ bal[last.sender] > last.pre.bal[last.sender]
    /\ \E b \in Users \ {last.sender} :
           /\ Has(bids, <<last.msg.token_id, b>>)
           /\ bids[<<last.msg.token_id, b>>] = last.pre.bids[<<last.msg.token_id, b>>]

\* C25: a RemoveAsk succeeds only without funds, on a token with an ask, from
\* the seller of that ask; it then deletes the ask and the seller owns the
\* token, and nothing else changes; from anyone else, or on a token without an
\* ask, it fails, and a RemoveAsk that fails changes nothing.
C25_RemoveAskBySeller ==
    \A sender \in Users, t \in Tokens, funds \in StrayFunds :
        LET info == Info(sender, funds)
            post == Apply(info, execute_remove_ask(info, t), Approved)
        IN /\ (~Has(asks, t) \/ funds # NoFunds) => ~post.ok
           /\ (Has(asks, t) /\ asks[t].seller # sender) => ~post.ok
           /\ ~post.ok => Unchanged(post)
           /\ post.ok =>
                  /\ post.asks = [k \in DOMAIN asks \ {t} |-> asks[k]]
                  /\ post.owner = [owner EXCEPT ![t] = asks[t].seller]
                  /\ post.bal = bal /\ post.bids = bids
                  /\ post.collection_bids = collection_bids
                  /\ post.auctions = auctions /\ post.params = params

\* C25 witness: the seller removed the ask of a token and owns the token, and
\* a RemoveAsk on that token now fails
C25_Witness ==
    /\ last.op = "RemoveAsk"
    /\ ~Has(asks, last.msg.token_id)
    /\ owner[last.msg.token_id] = last.sender
    /\ execute_remove_ask(Info(last.sender, NoFunds), last.msg.token_id).err = "NotFound"

\* C30: the token of every stored ask is owned by the contract. A CloseAuction
\* on an auction that an earlier close left stored hands the token, listed
\* since under an ask, to the seller of the auction, and the ask stays.
C30_AskInCustody == \A t \in DOMAIN asks : owner[t] = Contract

----------------------------------------------------------------------------
(* The whitelist contract, contract.rs. Member addresses are 1..MaxMembers,  *)
(* in the order of their keys in WHITELIST.                                  *)

\* at most MaxWCalls whitelist calls commit
MaxWCalls == 4
\* the whitelist's block time runs from 0 to MaxWTime
MaxWTime == 3
\* member addresses are 1..MaxMembers
MaxMembers == 101

PAGINATION_DEFAULT_LIMIT == 25
PAGINATION_MAX_LIMIT == 100

Members == 1..MaxMembers
WTimes == 0..MaxWTime

\* the elements of a list
Range(list) == {list[i] : i \in DOMAIN list}

\* the elements of a set of addresses in ascending order
Ascending(set) == SelectSeq([i \in 1..MaxMembers |-> i], LAMBDA m : m \in set)

\* sort_unstable then dedup: each element once, ascending
sort_dedup(list) == Ascending(Range(list))

\* What a whitelist handler returns: Err, or the config and the members it saved
WErr(e) == [ok |-> FALSE, err |-> e, config |-> config, whitelist |-> whitelist]

WOk(c, w) == [ok |-> TRUE, err |-> "", config |-> c, whitelist |-> w]

\* instantiate at block time block_time: a failure saves nothing
instantiate(block_time, info, msg) ==
    IF msg.member_limit = 0 THEN [ok |-> FALSE, err |-> "InvalidMemberLimit"]
    ELSE IF msg.unit_price.amount = 0 THEN [ok |-> FALSE, err |-> "InvalidUnitPrice"]
    ELSE IF msg.per_address_limit = 0
         THEN [ok |-> FALSE, err |-> "InvalidPerAddressLimit"]
    ELSE LET members == sort_dedup(msg.members)
             cfg == [admin |-> info.sender, start_time |-> msg.start_time,
                     end_time |-> msg.end_time, num_members |-> Len(members),
                     unit_price |-> msg.unit_price,
                     per_address_limit |-> msg.per_address_limit,
                     member_limit |-> msg.member_limit]
         IN IF msg.start_time >= msg.end_time
            THEN [ok |-> FALSE, err |-> "InvalidStartTime"]
            ELSE IF block_time >= msg.start_time
            THEN [ok |-> FALSE, err |-> "InvalidStartTime"]
            ELSE IF cfg.member_limit < cfg.num_members
            THEN [ok |-> FALSE, err |-> "MembersExceeded"]
            ELSE [ok |-> TRUE, err |-> "", config |-> cfg, whitelist |-> Range(members)]

\* the whitelist counts as started one block late
already_started_late(cfg) == wnow > cfg.start_time

\* "don't allow updating ... if whitelist is active": env.block.time >= config.start_time,
\* the same condition in execute_update_start_time, execute_update_end_time and
\* execute_remove_members
already_started(cfg) == wnow >= cfg.start_time

execute_update_start_time(info, start_time) ==
    IF info.sender # config.admin THEN WErr("Unauthorized")
    ELSE IF already_started(config) THEN WErr("AlreadyStarted")
    ELSE IF start_time > config.end_time THEN WErr("InvalidStartTime")
    ELSE WOk([config EXCEPT !.start_time = start_time], whitelist)

execute_update_end_time(info, end_time) ==
    IF info.sender # config.admin THEN WErr("Unauthorized")
    ELSE IF already_started(config) THEN WErr("AlreadyStarted")
    ELSE IF end_time < config.start_time THEN WErr("InvalidEndTime")
    ELSE WOk([config EXCEPT !.end_time = end_time], whitelist)

\* a member is saved and not counted
add_members_count_kept(cfg) == cfg

\* config.num_members += 1
add_members_count(cfg) == [cfg EXCEPT !.num_members = @ + 1]

\* the capacity is never found reached
add_members_exceeded_never(cfg) == FALSE

\* config.num_members >= config.member_limit
add_members_exceeded(cfg) == cfg.num_members >= cfg.member_limit

\* the loop of execute_add_members over the sorted list, from the config loaded
RECURSIVE add_members_loop(_, _, _)
add_members_loop(to_add, cfg, members) ==
    IF to_add = <<>> THEN WOk(cfg, members)
    ELSE IF add_members_exceeded(cfg) THEN WErr("MembersExceeded")
    ELSE IF Head(to_add) \in members THEN WErr("DuplicateMember")
    ELSE add_members_loop(Tail(to_add), add_members_count(cfg),
                          members \cup {Head(to_add)})

execute_add_members(info, to_add) ==
    IF info.sender # config.admin THEN WErr("Unauthorized")
    ELSE add_members_loop(sort_dedup(to_add), config, whitelist)

\* the loop of execute_remove_members over the list as it was sent
RECURSIVE remove_members_loop(_, _, _)
remove_members_loop(to_remove, cfg, members) ==
    IF to_remove = <<>> THEN WOk(cfg, members)
    ELSE IF Head(to_remove) \notin members THEN WErr("NoMemberFound")
    ELSE remove_members_loop(Tail(to_remove), [cfg EXCEPT !.num_members = @ - 1],
                             members \ {Head(to_remove)})

execute_remove_members(info, to_remove) ==
    IF info.sender # config.admin THEN WErr("Unauthorized")
    ELSE IF already_started(config) THEN WErr("AlreadyStarted")
    ELSE remove_members_loop(to_remove, config, whitelist)

execute_update_per_address_limit(info, per_address_limit) ==
    IF info.sender # config.admin THEN WErr("Unauthorized")
    ELSE WOk([config EXCEPT !.per_address_limit = per_address_limit], whitelist)

\* execute_increase_member_limit: the sender is not looked at
execute_increase_member_limit(info, member_limit) ==
    IF config.member_limit >= member_limit THEN WErr("InvalidMemberLimit")
    ELSE WOk([config EXCEPT !.member_limit = member_limit], whitelist)

\* the page size is the limit asked for, however large
query_members_limit_uncapped(limit) ==
    IF limit = None THEN PAGINATION_DEFAULT_LIMIT ELSE limit[1]

\* limit.unwrap_or(PAGINATION_DEFAULT_LIMIT).min(PAGINATION_MAX_LIMIT)
query_members_limit(limit) ==
    LET l == IF limit = None THEN PAGINATION_DEFAULT_LIMIT ELSE limit[1]
    IN IF l < PAGINATION_MAX_LIMIT THEN l ELSE PAGINATION_MAX_LIMIT

\* query_members over the member set members: the keys after start_after,
\* ascending, the first limit of them
query_members_of(members, start_after, limit) ==
    LET after == Ascending({m \in members : start_after = None \/ m > start_after[1]})
        n == query_members_limit(limit)
    IN SubSeq(after, 1, IF n < Len(after) THEN n ELSE Len(after))

query_members(start_after, limit) == query_members_of(whitelist, start_after, limit)

\* the addresses from..to, highest first
Batch(from, to) == [i \in 1..(to - from + 1) |-> to - i + 1]

\* The messages sent to the whitelist
AddMembersRequests == {<<1>>, <<2, 1, 2>>, <<3>>, <<MaxMembers>>}

RemoveMembersRequests == {<<1>>, <<2>>, <<1, 1>>, <<3, 1>>}

PerAddressLimits == {0, 2}

MemberLimits == {1, 3, MaxMembers}

InstantiateMsgs ==
    [members : {<<>>, <<2, 1, 2>>, <<3, 2, 1>>, Batch(1, MaxMembers - 1)},
     start_time : {0, 1, 2}, end_time : {2, 3},
     unit_price : {coin(0, Denom), coin(1, Denom)}, per_address_limit : {0, 1},
     member_limit : {0, 2, MaxMembers}]

\* The host runs a whitelist handler: Ok commits what it saved, Err reverts
WCall(op, info, res) ==
    /\ wlast.n < MaxWCalls
    /\ res.ok
    /\ config' = res.config
    /\ whitelist' = res.whitelist
    /\ wlast' = [op |-> op, sender |-> info.sender, n |-> wlast.n + 1]
    /\ UNCHANGED <<wnow, params, asks, bids, collection_bids, auctions, owner, bal, now,
                   calls, last>>

UpdateStartTime ==
    \E sender \in Users, time \in WTimes :
        WCall("UpdateStartTime", [sender |-> sender],
              execute_update_start_time([sender |-> sender], time))

UpdateEndTime ==
    \E sender \in Users, time \in WTimes :
        WCall("UpdateEndTime", [sender |-> sender],
              execute_update_end_time([sender |-> sender], time))

AddMembers ==
    \E sender \in Users, to_add \in AddMembersRequests :
        WCall("AddMembers", [sender |-> sender],
              execute_add_members([sender |-> sender], to_add))

RemoveMembers ==
    \E sender \in Users, to_remove \in RemoveMembersRequests :
        WCall("RemoveMembers", [sender |-> sender],
              execute_remove_members([sender |-> sender], to_remove))

UpdatePerAddressLimit ==
    \E sender \in Users, per_address_limit \in PerAddressLimits :
        WCall("UpdatePerAddressLimit", [sender |-> sender],
              execute_update_per_address_limit([sender |-> sender], per_address_limit))

IncreaseMemberLimit ==
    \E sender \in Users, member_limit \in MemberLimits :
        WCall("IncreaseMemberLimit", [sender |-> sender],
              execute_increase_member_limit([sender |-> sender], member_limit))

\* a block of the whitelist's chain passes
WTick ==
    /\ wnow < MaxWTime
    /\ wnow' = wnow + 1
    /\ UNCHANGED <<config, whitelist, wlast, params, asks, bids, collection_bids,
                   auctions, owner, bal, now, calls, last>>

\* The whitelist after an instantiate that succeeded at block time 0
InitWhitelist ==
    /\ MarketInit
    /\ wnow = 0
    /\ \E sender \in Users, msg \in InstantiateMsgs :
          LET res == instantiate(0, [sender |-> sender], msg)
          IN /\ res.ok
             /\ config = res.config
             /\ whitelist = res.whitelist
             /\ wlast = [op |-> "Instantiate", sender |-> sender, n |-> 0]

NextWhitelist ==
    \/ UpdateStartTime
    \/ UpdateEndTime
    \/ AddMembers
    \/ RemoveMembers
    \/ UpdatePerAddressLimit
    \/ IncreaseMemberLimit
    \/ WTick

SpecWhitelist == InitWhitelist /\ [][NextWhitelist]_vars

\* The whitelist under the calls that decide its members, which is all query_members
\* reads
NextMembers ==
    \/ AddMembers
    \/ RemoveMembers
    \/ IncreaseMemberLimit

SpecMembers == InitWhitelist /\ [][NextMembers]_vars

----------------------------------------------------------------------------
(* Claims on the whitelist                                                   *)

\* the admin of the whitelist calling
Admin == [sender |-> config.admin]

\* config.num_members is the number of addresses stored in WHITELIST
CountIsSize == config.num_members = Cardinality(whitelist)

CapacityKept ==
    /\ config.num_members <= config.member_limit
    /\ wlast.op = "Instantiate" =>
          \A block_time \in WTimes, sender \in Users, msg \in InstantiateMsgs :
             Len(sort_dedup(msg.members)) > msg.member_limit =>
                ~instantiate(block_time, [sender |-> sender], msg).ok
    /\ \A sender \in Users, to_add \in AddMembersRequests :
          LET res == execute_add_members([sender |-> sender], to_add)
          IN /\ res.ok => res.config.num_members <= res.config.member_limit
             /\ ( /\ sender = config.admin
                  /\ Range(to_add) \cap whitelist = {}
                  /\ config.num_members + Cardinality(Range(to_add)) > config.member_limit )
                => ~res.ok /\ res.err = "MembersExceeded"
    /\ \A sender \in Users, member_limit \in MemberLimits :
          LET res == execute_increase_member_limit([sender |-> sender], member_limit)
          IN /\ res.ok <=> member_limit > config.member_limit
             /\ res.ok => res.config.member_limit = member_limit
             /\ ~res.ok => res.err = "InvalidMemberLimit"

\* the limit only grows, and only IncreaseMemberLimit changes it
LimitStep ==
    /\ config'.member_limit >= config.member_limit
    /\ config'.member_limit # config.member_limit => wlast'.op = "IncreaseMemberLimit"

\* C27: num_members <= member_limit in every reachable state; instantiate fails when
\* the de-duplicated list is longer than member_limit; AddMembers fails with
\* MembersExceeded rather than exceed the limit; IncreaseMemberLimit succeeds exactly
\* with a value strictly greater than the current limit, and the limit never decreases
C27_Capacity == [](CapacityKept) /\ [][LimitStep]_vars

\* the limit was raised to 3 and the whitelist filled up to it: one more address is
\* refused
C27_Witness ==
    /\ wlast.op = "AddMembers"
    /\ config.member_limit = 3
    /\ config.num_members = config.member_limit
    /\ \E to_add \in AddMembersRequests :
          /\ Range(to_add) \cap whitelist = {}
          /\ execute_add_members(Admin, to_add).err = "MembersExceeded"

\* The queries sent: limits below, at and above the cap, and none
QueryLimits ==
    {None, Some(0), Some(1), Some(3), Some(PAGINATION_MAX_LIMIT),
     Some(PAGINATION_MAX_LIMIT + PAGINATION_DEFAULT_LIMIT)}

\* The limits the enumeration is run with: a limit of 0 returns an empty page, which
\* has no last member to go on from
EnumerateLimits ==
    {None, Some(3), Some(PAGINATION_MAX_LIMIT),
     Some(PAGINATION_MAX_LIMIT + PAGINATION_DEFAULT_LIMIT)}

QueryStarts == {None, Some(1), Some(2), Some(PAGINATION_DEFAULT_LIMIT), Some(MaxMembers)}

\* min(limit, 100), 25 when no limit is given, as the specification words it
StatedLimit(limit) ==
    IF limit = None THEN 25 ELSE IF limit[1] < 100 THEN limit[1] ELSE 100

\* a page is ascending, no longer than the limit, of members strictly after
\* start_after, and skips none: a member after start_after that is not on the page
\* comes after a full page
PageOK(start_after, limit) ==
    LET page == query_members(start_after, limit)
    IN /\ \A i \in 1..(Len(page) - 1) : page[i] < page[i + 1]
       /\ Len(page) <= StatedLimit(limit)
       /\ \A i \in DOMAIN page :
             page[i] \in whitelist /\ (start_after # None => page[i] > start_after[1])
       /\ \A m \in whitelist \ Range(page) :
             \/ start_after # None /\ m <= start_after[1]
             \/ Len(page) = StatedLimit(limit) /\ Len(page) > 0 /\ m > page[Len(page)]
             \/ StatedLimit(limit) = 0

\* the pages got by querying again from the last member of the page before, until a
\* page comes back empty
RECURSIVE Enumerate(_, _)
Enumerate(start_after, limit) ==
    LET page == query_members(start_after, limit)
    IN IF page = <<>> THEN <<>>
       ELSE page \o Enumerate(Some(page[Len(page)]), limit)

\* C28: query_members returns members in ascending order, at most min(limit, 100) of
\* them, 25 when no limit is given, strictly after start_after; querying again and
\* again from the last member of the previous page, with a limit that is not 0,
\* enumerates every member exactly once
C28_Pagination ==
    /\ \A start_after \in QueryStarts, limit \in QueryLimits : PageOK(start_after, limit)
    /\ \A limit \in EnumerateLimits : Enumerate(None, limit) = Ascending(whitelist)

\* more members than the cap: no limit gives 25 of them, a limit above the cap gives
\* 100, and the pages of 100 enumerate them all
C28_Witness ==
    /\ wlast.op = "AddMembers"
    /\ Cardinality(whitelist) > PAGINATION_MAX_LIMIT
    /\ Len(query_members(None, None)) = 25
    /\ Len(query_members(None, Some(PAGINATION_MAX_LIMIT + PAGINATION_DEFAULT_LIMIT))) = 100
    /\ Len(Enumerate(None, Some(PAGINATION_MAX_LIMIT))) = Cardinality(whitelist)

\* block time >= config.start_time
Started == wnow >= config.start_time

\* once started, every UpdateStartTime, UpdateEndTime and RemoveMembers fails: the
\* admin's with AlreadyStarted, anyone else's with Unauthorized
StartedRefused ==
    Started =>
       \A sender \in Users :
          LET info == [sender |-> sender]
              refused(res) == /\ ~res.ok
                              /\ res.err = IF sender = config.admin THEN "AlreadyStarted"
                                           ELSE "Unauthorized"
          IN /\ \A time \in WTimes : refused(execute_update_start_time(info, time))
             /\ \A time \in WTimes : refused(execute_update_end_time(info, time))
             /\ \A to_remove \in RemoveMembersRequests :
                   refused(execute_remove_members(info, to_remove))

\* once started, a step keeps the whitelist started, start_time and end_time as they
\* are, and every member
FrozenStep ==
    Started =>
       /\ wnow' >= config'.start_time
       /\ config'.start_time = config.start_time
       /\ config'.end_time = config.end_time
       /\ whitelist \subseteq whitelist'

\* C29: once block time >= config.start_time, UpdateStartTime, UpdateEndTime and
\* RemoveMembers always fail (AlreadyStarted for the admin), so start_time and end_time
\* never change again and no member is removed after the start
C29_FrozenAtStart == [](StartedRefused) /\ [][FrozenStep]_vars

\* the start was moved before it came; now the whitelist has started with members in
\* it, and the admin can no longer move the times or remove a member
C29_Witness ==
    /\ Started
    /\ wlast.op = "UpdateStartTime"
    /\ \E m \in whitelist : execute_remove_members(Admin, <<m>>).err = "AlreadyStarted"
    /\ \E time \in WTimes :
          /\ time > wnow
          /\ time <= config.end_time
          /\ execute_update_start_time(Admin, time).err = "AlreadyStarted"
    /\ \E time \in WTimes :
          /\ time >= config.start_time
          /\ execute_update_end_time(Admin, time).err = "AlreadyStarted"

----------------------------------------------------------------------------
(* Claims on both contracts                                                  *)

\* the last call committed paid a bid out of the contract
PaidOut == bal[Contract] < last.pre.bal[Contract]

\* C31: a bid's escrow leaves the contract at most once. Right after an AcceptBid, or
\* a CloseAuction accepting the highest bid, paid a bid out, the Bid record of the
\* bidder who got the token is gone, and a RemoveBid by that bidder on the token
\* fails. The code keeps the record of the bid a CloseAuction sold to.
C31_EscrowPaidOnce ==
    /\ (last.op = "AcceptBid" /\ PaidOut) =>
          LET t == last.msg.token_id IN
          /\ ~Has(bids, <<t, owner[t]>>)
          /\ ~RemoveBidPost(owner[t], t).ok
    /\ (last.op = "CloseAuction" /\ last.msg.accept_highest_bid /\ PaidOut) =>
          LET t == last.msg.token_id IN
          /\ ~Has(bids, <<t, owner[t]>>)
          /\ ~RemoveBidPost(owner[t], t).ok

\* a call that failed with Unauthorized and saved nothing
Unauthorized(res) ==
    /\ ~res.ok
    /\ res.err = "Unauthorized"
    /\ res.config = config
    /\ res.whitelist = whitelist

\* C32: every execute message of the whitelist sent by an address that is not the
\* admin fails with Unauthorized and leaves config and the members as they are. The
\* code does not look at the sender of IncreaseMemberLimit.
C32_AdminOnly ==
    \A sender \in Users \ {config.admin} :
        LET info == [sender |-> sender] IN
        /\ \A time \in WTimes : Unauthorized(execute_update_start_time(info, time))
        /\ \A time \in WTimes : Unauthorized(execute_update_end_time(info, time))
        /\ \A to_add \in AddMembersRequests :
               Unauthorized(execute_add_members(info, to_add))
        /\ \A to_remove \in RemoveMembersRequests :
               Unauthorized(execute_remove_members(info, to_remove))
        /\ \A per_address_limit \in PerAddressLimits :
               Unauthorized(execute_update_per_address_limit(info, per_address_limit))
        /\ \A member_limit \in MemberLimits :
               Unauthorized(execute_increase_member_limit(info, member_limit))

============================================================================
